---- MODULE Spec2Model ----
(***************************************************************************)
(* kill-zen-all: the clipboard normaliser of src/src/main.rs.              *)
(*                                                                         *)
(* Strings are sequences of Unicode code points, a Vec<char> likewise.     *)
(* Spec    models main(): startup and the polling / hot-reload loop.       *)
(* SpecFmt models format_text as a function applied to bounded inputs.     *)
(***************************************************************************)
EXTENDS Integers, Sequences, FiniteSets, TLC

(***************************************************************************)
(* Bounds of the model                                                     *)
(***************************************************************************)
\* longest text drawn over FoldAlphabet as an input of format_text in SpecFmt
MaxLen == 2

(***************************************************************************)
(* Program constants                                                       *)
(***************************************************************************)
\* first and last code point of the regex class [！-～]
FullWidthFirst == 65281
FullWidthLast == 65374
\* the offset 0xfee0 subtracted from a matched character
HalfWidthOffset == 65248
\* the range of u8, the type the difference is cast to
U8Range == 256

(***************************************************************************)
(* format_text                                                             *)
(***************************************************************************)
\* str::replace: every non-overlapping occurrence of from, left to right;
\* an empty pattern matches at every character boundary, both ends included
RECURSIVE StrReplace(_, _, _)
StrReplace(s, from, to) ==
    IF from = <<>>
    THEN IF s = <<>> THEN to ELSE to \o <<Head(s)>> \o StrReplace(Tail(s), from, to)
    ELSE IF Len(s) < Len(from) THEN s
    ELSE IF SubSeq(s, 1, Len(from)) = from
    THEN to \o StrReplace(SubSeq(s, Len(from) + 1, Len(s)), from, to)
    ELSE <<Head(s)>> \o StrReplace(Tail(s), from, to)

\* mutant: the rules are applied last to first
RECURSIVE ApplyReplacements_Reversed(_, _)
ApplyReplacements_Reversed(s, rules) ==
    IF rules = <<>> THEN s
    ELSE LET last == rules[Len(rules)]
         IN  ApplyReplacements_Reversed(StrReplace(s, last.original, last.replacement),
                                        SubSeq(rules, 1, Len(rules) - 1))

\* the loop over the rules, in sequence order
RECURSIVE ApplyReplacements(_, _)
ApplyReplacements(s, rules) ==
    IF rules = <<>> THEN s
    ELSE ApplyReplacements(StrReplace(s, Head(rules).original, Head(rules).replacement),
                           Tail(rules))

\* Vec<char>::contains
Contains(list, c) == \E i \in 1..Len(list) : list[i] = c

\* mutant: the class reaches one code point further, [！-｟]
RegexMatches_Wider(c) == FullWidthFirst <= c /\ c <= FullWidthLast + 1

\* the characters the regex [！-～] matches
RegexMatches(c) == FullWidthFirst <= c /\ c <= FullWidthLast

\* mutant: the exclusion list is not consulted
HalfWidthChar_IgnoresExclusions(c, exclusion_list) == (c - HalfWidthOffset) % U8Range

\* mutant: the offset subtracted is 1
HalfWidthChar_StepsDown(c, exclusion_list) ==
    IF Contains(exclusion_list, c) THEN c ELSE (c - 1) % (FullWidthLast + 1)

\* the replacement closure: what one matched character becomes
HalfWidthChar(c, exclusion_list) ==
    IF Contains(exclusion_list, c) THEN c ELSE (c - HalfWidthOffset) % U8Range

\* Regex::replace_all over the working string
WidthFold(s, exclusion_list) ==
    [i \in 1..Len(s) |->
        IF RegexMatches(s[i]) THEN HalfWidthChar(s[i], exclusion_list) ELSE s[i]]

\* Regex::new on the constant pattern
RegexCompiles == TRUE

\* mutant: the closure is given no exclusion list
format_text_NoExclusions(text, rules, exclusion_list) ==
    IF RegexCompiles
    THEN [ok |-> TRUE, text |-> WidthFold(ApplyReplacements(text, rules), <<>>)]
    ELSE [ok |-> FALSE, text |-> <<>>]

\* format_text: a Result, Err when the pattern does not compile
format_text(text, rules, exclusion_list) ==
    IF RegexCompiles
    THEN [ok |-> TRUE, text |-> WidthFold(ApplyReplacements(text, rules), exclusion_list)]
    ELSE [ok |-> FALSE, text |-> <<>>]

(***************************************************************************)
(* Configurations and fingerprints                                         *)
(***************************************************************************)
\* number of values a fingerprint can take (u64 in the program)
HashSpace == 8

\* Hasher::write of one unit into the running state
HashFeed(h, n) == (h * 31 + n + 1) % HashSpace

RECURSIVE HashStr(_, _)
\* Hash for str: the characters, then the 0xff terminator
HashStr(h, s) ==
    IF s = <<>> THEN HashFeed(h, 255) ELSE HashStr(HashFeed(h, Head(s)), Tail(s))

RECURSIVE HashChars(_, _)
\* Hash for [char]: each character in order
HashChars(h, s) ==
    IF s = <<>> THEN h ELSE HashChars(HashFeed(h, Head(s)), Tail(s))

RECURSIVE HashRules(_, _)
\* derive(Hash) for Replacement, over the slice: original, then replacement
HashRules(h, rules) ==
    IF rules = <<>> THEN h
    ELSE HashRules(HashStr(HashStr(h, Head(rules).original), Head(rules).replacement),
                   Tail(rules))

\* calculate_hash(&Vec<Replacement>): the length prefix, then the elements
calculate_hash_replacements(rules) == HashRules(HashFeed(0, Len(rules)), rules)

\* calculate_hash(&Vec<char>): the length prefix, then the elements
calculate_hash_exclusions(list) == HashChars(HashFeed(0, Len(list)), list)

Rule(o, r) == [original |-> o, replacement |-> r]

\* default_replacements.json: "，"->", "  "．"->". "  "CRLF"->"。"  "頚"->"頸"
DefaultReplacements ==
    << Rule(<<65292>>, <<44, 32>>), Rule(<<65294>>, <<46, 32>>),
       Rule(<<67, 82, 76, 70>>, <<12290>>), Rule(<<38938>>, <<38968>>) >>

\* default_exclusions.json: "　" "！" "？" "〜" "～"
DefaultExclusions == <<12288, 65281, 65311, 12316, 65374>>

\* the rule files a user writes in the model: the defaults, and no rule
RuleConfigs == { DefaultReplacements, <<>> }

\* the exclusion files a user writes in the model: the defaults, and no exclusion
ExclusionConfigs == { DefaultExclusions, <<>> }

\* a file on disk: absent, not loadable (unreadable or malformed), or valid
\* with the value serde_json parses from it
Missing == [state |-> "missing", val |-> <<>>]
Bad == [state |-> "bad", val |-> <<>>]
Valid(v) == [state |-> "valid", val |-> v]

\* load_json / load_replacements / load_exclusion_list: Ok exactly on a valid file
LoadOk(file) == file.state = "valid"

\* the clipboard of the system: a text, or content that is not text
NonText == [isText |-> FALSE, val |-> <<>>]
Text(t) == [isText |-> TRUE, val |-> t]

\* the text a user copies in the model: "！"
UserTexts == { <<65281>> }

(***************************************************************************)
(* More bounds                                                             *)
(***************************************************************************)
\* clipboard contexts the provider hands out before it stops failing
MaxHandles == 2
\* events the watcher's channel holds at most
MaxQueue == 1

(***************************************************************************)
(* State                                                                   *)
(***************************************************************************)
VARIABLES
    pc,                         \* position of main: startup, clip, drain, sleep, exit
    entered,                    \* the loop of line 209 has been entered
    replacements,               \* Vec<Replacement> in effect
    exclusion_list,             \* Vec<char> in effect
    previous_replacement_hash,  \* accepted fingerprint of the rules
    previous_exclusion_hash,    \* accepted fingerprint of the exclusions
    replacement_failed,         \* sticky flag of replacements.json
    exclusion_failed,           \* sticky flag of exclusions.json
    ctx,                        \* the clipboard context held (0: none yet)
    watcher,                    \* the watcher held (0: none yet)
    pathUtf8,                   \* the config paths convert to str
    files,                      \* replacements.json (R) and exclusions.json (E) on disk
    clipboard,                  \* content of the system clipboard
    made,                       \* clipboard contexts the provider has handed out
    queue,                      \* the channel from the watcher to main (rx)
    watcherAlive,               \* the watcher still holds its clone of tx
    init,                       \* outcome of each startup initialization
    tick,                       \* what the clipboard step of the current tick did
    drain,                      \* what the latest drain step did
    lastLoad,                   \* per file: outcome of the latest load attempt
    fmtPc, fmtText, fmtRules, fmtExcl, fmtMid, fmtOut,  \* format_text on its own
    fmtAgain                    \* format_text called on its own result

progVars == <<pc, entered, replacements, exclusion_list, previous_replacement_hash,
              previous_exclusion_hash, replacement_failed, exclusion_failed, ctx, watcher>>
envVars == <<pathUtf8, files, clipboard, made, queue, watcherAlive>>
ghostVars == <<init, tick, drain, lastLoad>>
fmtVars == <<fmtPc, fmtText, fmtRules, fmtExcl, fmtMid, fmtOut, fmtAgain>>
vars == <<progVars, envVars, ghostVars, fmtVars>>

Paths == {"R", "E"}

\* what the watcher sends: Err(notify::Error), or Ok(Event) with its paths
ErrEvent == [err |-> TRUE, paths |-> {}]
Events == {ErrEvent} \cup {[err |-> FALSE, paths |-> P] : P \in (SUBSET Paths) \ {{}}}

NoTick == [readOk |-> FALSE, handle |-> 0, read |-> <<>>, fmtOk |-> FALSE,
           formatted |-> <<>>, wrote |-> FALSE, writeOk |-> FALSE, reopen |-> FALSE,
           reopenOk |-> FALSE, backoff |-> FALSE, probeWrote |-> FALSE,
           newHandle |-> 0, resumed |-> 0, writes |-> 0,
           open |-> [new |-> "skipped", get |-> "skipped", set |-> "skipped",
                     err |-> "none"]]
NoDrain == [kind |-> "none", paths |-> {}, loadR |-> "none", loadE |-> "none",
            warnR |-> FALSE, warnE |-> FALSE, infoR |-> FALSE, infoE |-> FALSE]
NoInit == [bootstrap |-> "skipped", loadR |-> "skipped", loadE |-> "skipped",
           watcher |-> "skipped", clipboard |-> "skipped"]

\* format_text is not running on its own under Spec
FmtOff ==
    /\ fmtPc = "off" /\ fmtText = <<>> /\ fmtRules = <<>> /\ fmtExcl = <<>>
    /\ fmtMid = <<>> /\ fmtOut = [ok |-> FALSE, text |-> <<>>]
    /\ fmtAgain = [ok |-> FALSE, text |-> <<>>]

Init ==
    /\ pc = "startup" /\ entered = FALSE
    /\ replacements = <<>> /\ exclusion_list = <<>>
    /\ previous_replacement_hash = 0 /\ previous_exclusion_hash = 0
    /\ replacement_failed = FALSE /\ exclusion_failed = FALSE
    /\ ctx = 0 /\ watcher = 0 /\ made = 0
    /\ pathUtf8 \in BOOLEAN
    /\ files \in [R : {Missing, Bad} \cup {Valid(v) : v \in RuleConfigs},
                   E : {Missing, Bad} \cup {Valid(v) : v \in ExclusionConfigs}]
    /\ clipboard \in {NonText} \cup {Text(t) : t \in UserTexts}
    /\ queue = <<>> /\ watcherAlive = FALSE
    /\ init = NoInit /\ tick = NoTick /\ drain = NoDrain
    /\ lastLoad = [f \in Paths |-> "none"]
    /\ FmtOff

(***************************************************************************)
(* Startup: main, lines 173-207                                            *)
(***************************************************************************)
\* create_default_config: resolve and create the directory, then write each
\* absent file from its embedded default and log its path
create_default_config(fs, dirOk, writeROk, writeEOk, utf8) ==
    IF ~dirOk THEN [ok |-> FALSE, files |-> fs]
    ELSE IF fs["R"] = Missing /\ ~writeROk THEN [ok |-> FALSE, files |-> fs]
    ELSE LET fs1 == IF fs["R"] = Missing
                    THEN [fs EXCEPT !["R"] = Valid(DefaultReplacements)] ELSE fs
         IN  IF fs["R"] = Missing /\ ~utf8 THEN [ok |-> FALSE, files |-> fs1]
             ELSE IF fs1["E"] = Missing /\ ~writeEOk THEN [ok |-> FALSE, files |-> fs1]
             ELSE LET fs2 == IF fs1["E"] = Missing
                             THEN [fs1 EXCEPT !["E"] = Valid(DefaultExclusions)] ELSE fs1
                  IN  IF fs1["E"] = Missing /\ ~utf8 THEN [ok |-> FALSE, files |-> fs2]
                      ELSE [ok |-> TRUE, files |-> fs2]

\* mutant: the path is not converted before the loop
StartupLoad_NoUtf8Check(file, utf8) == LoadOk(file)

\* path.to_str().context(..)? followed by load_replacements(..)? / load_exclusion_list(..)?
StartupLoad(file, utf8) == utf8 /\ LoadOk(file)

\* mutant: a failed registration is only logged, as the loop does at lines 305-313
WatcherInit_IgnoresWatch(newOk, watchROk, watchEOk) == newOk

\* Watcher::new(..)? and the two watch(..)? calls
WatcherInit(newOk, watchROk, watchEOk) == newOk /\ watchROk /\ watchEOk

\* whether ctx.get_contents() can succeed: never on content that is not text
GetOutcomes(clip) == IF clip.isText THEN BOOLEAN ELSE {FALSE}

Status(b) == IF b THEN "ok" ELSE "failed"

\* the calls create_clipboard_context made, with their outcomes, and the
\* error it returned
Calls(new, get, set, err) == [new |-> new, get |-> get, set |-> set, err |-> err]

\* mutant: both probes are always made (& in place of &&)
create_clipboard_context_BothProbes(newOk, getOk, setOk, clip) ==
    IF ~newOk THEN [ok |-> FALSE, clip |-> clip, probeWrote |-> FALSE,
                    calls |-> Calls("failed", "skipped", "skipped", "CreateContext")]
    ELSE IF setOk THEN [ok |-> TRUE, clip |-> Text(<<>>), probeWrote |-> TRUE,
                        calls |-> Calls("ok", Status(getOk), "ok", "none")]
    ELSE [ok |-> getOk, clip |-> clip, probeWrote |-> FALSE,
          calls |-> Calls("ok", Status(getOk), "failed",
                          IF getOk THEN "none" ELSE "CreateContext")]

\* create_clipboard_context: construct, probe with a read and, when the read
\* fails, with a write of the empty string
create_clipboard_context(newOk, getOk, setOk, clip) ==
    IF ~newOk THEN [ok |-> FALSE, clip |-> clip, probeWrote |-> FALSE,
                    calls |-> Calls("failed", "skipped", "skipped", "CreateContext")]
    ELSE IF getOk THEN [ok |-> TRUE, clip |-> clip, probeWrote |-> FALSE,
                        calls |-> Calls("ok", "ok", "skipped", "none")]
    ELSE IF setOk THEN [ok |-> TRUE, clip |-> Text(<<>>), probeWrote |-> TRUE,
                        calls |-> Calls("ok", "failed", "ok", "none")]
    ELSE [ok |-> FALSE, clip |-> clip, probeWrote |-> FALSE,
          calls |-> Calls("ok", "failed", "failed", "CreateContext")]

Startup ==
    /\ pc = "startup"
    /\ \E dirOk, writeROk, writeEOk, newOk, watchROk, watchEOk, cNewOk, cSetOk \in BOOLEAN :
       \E cGetOk \in GetOutcomes(clipboard) :
        LET boot == create_default_config(files, dirOk, writeROk, writeEOk, pathUtf8)
            fs == boot.files
            rOk == StartupLoad(fs["R"], pathUtf8)
            eOk == StartupLoad(fs["E"], pathUtf8)
            wOk == WatcherInit(newOk, watchROk, watchEOk)
            open == create_clipboard_context(cNewOk, cGetOk, cSetOk, clipboard)
            toClip == boot.ok /\ rOk /\ eOk /\ wOk
        IN  /\ files' = fs
            /\ init' = [bootstrap |-> Status(boot.ok),
                        loadR |-> IF boot.ok THEN Status(pathUtf8 /\ LoadOk(fs["R"]))
                                  ELSE "skipped",
                        loadE |-> IF boot.ok /\ rOk
                                  THEN Status(pathUtf8 /\ LoadOk(fs["E"])) ELSE "skipped",
                        watcher |-> IF boot.ok /\ rOk /\ eOk
                                    THEN Status(newOk /\ watchROk /\ watchEOk) ELSE "skipped",
                        clipboard |-> IF toClip THEN Status(open.ok) ELSE "skipped"]
            /\ clipboard' = IF toClip THEN open.clip ELSE clipboard
            /\ IF toClip /\ open.ok
               THEN /\ pc' = "clip" /\ entered' = TRUE
                    /\ replacements' = fs["R"].val
                    /\ exclusion_list' = fs["E"].val
                    /\ previous_replacement_hash' = calculate_hash_replacements(fs["R"].val)
                    /\ previous_exclusion_hash' = calculate_hash_exclusions(fs["E"].val)
                    /\ replacement_failed' = FALSE /\ exclusion_failed' = FALSE
                    /\ ctx' = 1 /\ made' = 1 /\ watcher' = 1 /\ watcherAlive' = TRUE
                    /\ lastLoad' = [f \in Paths |-> "ok"]
               ELSE /\ pc' = "exit"
                    /\ UNCHANGED <<entered, replacements, exclusion_list,
                                   previous_replacement_hash, previous_exclusion_hash,
                                   replacement_failed, exclusion_failed, ctx, made,
                                   watcher, watcherAlive, lastLoad>>
    /\ UNCHANGED <<pathUtf8, queue, tick, drain, fmtVars>>

(***************************************************************************)
(* The loop, clipboard step: main, lines 211-245                           *)
(***************************************************************************)
\* outcomes of get_clipboard_contents in the loop; the provider stops failing
\* once it has handed out MaxHandles contexts
LoopGetOutcomes(clip, handles) ==
    IF handles < MaxHandles THEN GetOutcomes(clip) ELSE {clip.isText}

\* mutant: the comparison is dropped
ShouldWrite_Always(clipboard_content, formatted_content) == TRUE

\* line 218: the write is made only for a text that normalization changed
ShouldWrite(clipboard_content, formatted_content) == clipboard_content # formatted_content

\* mutant: the new context is dropped and the old one kept
RecoverClipboard_KeepsOld(old, openOk, new_ctx) ==
    IF openOk THEN [ctx |-> old, backoff |-> FALSE]
    ELSE [ctx |-> old, backoff |-> TRUE]

\* mutant: the three-second sleep is taken after a successful reopen instead
RecoverClipboard_BackoffOnSuccess(old, openOk, new_ctx) ==
    IF openOk THEN [ctx |-> new_ctx, backoff |-> TRUE]
    ELSE [ctx |-> old, backoff |-> FALSE]

\* lines 234-244: the outcome of create_clipboard_context decides the handle
\* held afterwards and whether the three-second sleep is taken
RecoverClipboard(old, openOk, new_ctx) ==
    IF openOk THEN [ctx |-> new_ctx, backoff |-> FALSE]
    ELSE [ctx |-> old, backoff |-> TRUE]

\* mutant: a failed write makes the loop drop the context and write again
WriteFailed_Retries(old) == [ctx |-> 0, reopen |-> TRUE, writes |-> 2]

\* lines 224-226: a failed write is logged; the context is kept, no reopen
\* follows and the write is not attempted again
WriteFailed(old) == [ctx |-> old, reopen |-> FALSE, writes |-> 1]

\* every outcome create_clipboard_context can have on this clipboard
CreateOutcomes(clip) ==
    {create_clipboard_context(newOk, getOk, setOk, clip) :
        newOk \in BOOLEAN, getOk \in GetOutcomes(clip), setOk \in BOOLEAN}

ClipboardStep ==
    /\ pc = "clip"
    /\ \E getOk \in LoopGetOutcomes(clipboard, made) :
        LET clipboard_content == clipboard.val
            f == format_text(clipboard_content, replacements, exclusion_list)
            doWrite == f.ok /\ ShouldWrite(clipboard_content, f.text)
        IN  IF getOk
            THEN \E setOk \in IF doWrite THEN BOOLEAN ELSE {FALSE} :
                 LET failed == doWrite /\ ~setOk
                 IN  /\ clipboard' = IF doWrite /\ setOk THEN Text(f.text) ELSE clipboard
                     /\ ctx' = IF failed THEN WriteFailed(ctx).ctx ELSE ctx
                     /\ UNCHANGED made
                     /\ tick' = [NoTick EXCEPT !.readOk = TRUE, !.handle = ctx,
                                    !.read = clipboard_content, !.fmtOk = f.ok,
                                    !.formatted = f.text, !.wrote = doWrite,
                                    !.writeOk = doWrite /\ setOk,
                                    !.reopen = failed /\ WriteFailed(ctx).reopen,
                                    !.writes = IF failed THEN WriteFailed(ctx).writes
                                               ELSE IF doWrite THEN 1 ELSE 0,
                                    !.resumed = tick.newHandle]
            ELSE \E open \in CreateOutcomes(clipboard) :
                 LET rec == RecoverClipboard(ctx, open.ok, made + 1)
                 IN  /\ clipboard' = open.clip
                     /\ ctx' = rec.ctx
                     /\ made' = IF open.ok THEN made + 1 ELSE made
                     /\ tick' = [NoTick EXCEPT !.handle = ctx, !.reopen = TRUE,
                                    !.reopenOk = open.ok, !.backoff = rec.backoff,
                                    !.probeWrote = open.probeWrote,
                                    !.open = open.calls,
                                    !.newHandle = IF open.ok THEN made + 1 ELSE 0,
                                    !.resumed = tick.newHandle]
    /\ pc' = "drain"
    /\ UNCHANGED <<entered, replacements, exclusion_list, previous_replacement_hash,
                   previous_exclusion_hash, replacement_failed, exclusion_failed, watcher,
                   pathUtf8, files, queue, watcherAlive, init, drain, lastLoad, fmtVars>>

(***************************************************************************)
(* The loop, drain step: main, lines 248-321                               *)
(***************************************************************************)
\* senders of the channel: tx, which main holds for as long as it runs, and
\* the clone the watcher holds while it is alive
SenderCount(alive) == 1 + (IF alive THEN 1 ELSE 0)

\* rx.try_recv(): one message if any, Disconnected when none is buffered and no
\* sender is left, Empty otherwise
try_recv(q, alive) ==
    IF q # <<>> THEN "event"
    ELSE IF SenderCount(alive) = 0 THEN "disconnected"
    ELSE "empty"

\* mutant: the accepted fingerprint is not updated with the rules
ReloadReplacements_KeepsHash(cur, file) ==
    IF ~LoadOk(file)
    THEN [val |-> cur.val, hash |-> cur.hash, failed |-> TRUE,
          load |-> "failed", warn |-> ~cur.failed, info |-> FALSE]
    ELSE IF cur.hash # calculate_hash_replacements(file.val)
    THEN [val |-> file.val, hash |-> cur.hash, failed |-> FALSE,
          load |-> "ok", warn |-> FALSE, info |-> TRUE]
    ELSE [val |-> cur.val, hash |-> cur.hash, failed |-> cur.failed,
          load |-> "ok", warn |-> FALSE, info |-> FALSE]

\* mutant: a loaded value is accepted without comparing fingerprints
ReloadReplacements_Always(cur, file) ==
    IF ~LoadOk(file)
    THEN [val |-> cur.val, hash |-> cur.hash, failed |-> TRUE,
          load |-> "failed", warn |-> ~cur.failed, info |-> FALSE]
    ELSE [val |-> file.val, hash |-> calculate_hash_replacements(file.val),
          failed |-> FALSE, load |-> "ok", warn |-> FALSE, info |-> TRUE]

\* lines 252-270: the load of replacements.json and what follows it.
\* cur is the rules, their fingerprint and the sticky flag; warn and info
\* are the messages of lines 258 and 265-266.
ReloadReplacements(cur, file) ==
    IF ~LoadOk(file)
    THEN [val |-> cur.val, hash |-> cur.hash, failed |-> TRUE,
          load |-> "failed", warn |-> ~cur.failed, info |-> FALSE]
    ELSE LET new_replacement_hash == calculate_hash_replacements(file.val)
         IN  IF cur.hash # new_replacement_hash
             THEN [val |-> file.val, hash |-> new_replacement_hash, failed |-> FALSE,
                   load |-> "ok", warn |-> FALSE, info |-> TRUE]
             ELSE [val |-> cur.val, hash |-> cur.hash, failed |-> cur.failed,
                   load |-> "ok", warn |-> FALSE, info |-> FALSE]

\* mutant: a failed load empties the list (unwrap_or_default)
ReloadExclusions_ResetsOnFailure(cur, file) ==
    IF ~LoadOk(file)
    THEN [val |-> <<>>, hash |-> calculate_hash_exclusions(<<>>), failed |-> TRUE,
          load |-> "failed", warn |-> ~cur.failed, info |-> FALSE]
    ELSE LET new_exclusion_hash == calculate_hash_exclusions(file.val)
         IN  IF cur.hash # new_exclusion_hash
             THEN [val |-> file.val, hash |-> new_exclusion_hash, failed |-> FALSE,
                   load |-> "ok", warn |-> FALSE, info |-> TRUE]
             ELSE [val |-> cur.val, hash |-> cur.hash, failed |-> cur.failed,
                   load |-> "ok", warn |-> FALSE, info |-> FALSE]

\* lines 273-291: the load of exclusions.json and what follows it
ReloadExclusions(cur, file) ==
    IF ~LoadOk(file)
    THEN [val |-> cur.val, hash |-> cur.hash, failed |-> TRUE,
          load |-> "failed", warn |-> ~cur.failed, info |-> FALSE]
    ELSE LET new_exclusion_hash == calculate_hash_exclusions(file.val)
         IN  IF cur.hash # new_exclusion_hash
             THEN [val |-> file.val, hash |-> new_exclusion_hash, failed |-> FALSE,
                   load |-> "ok", warn |-> FALSE, info |-> TRUE]
             ELSE [val |-> cur.val, hash |-> cur.hash, failed |-> cur.failed,
                   load |-> "ok", warn |-> FALSE, info |-> FALSE]

\* no load attempted: the state of the file's config is kept
NoReload(cur) ==
    [val |-> cur.val, hash |-> cur.hash, failed |-> cur.failed,
     load |-> "none", warn |-> FALSE, info |-> FALSE]

\* line 251: the body of the first if runs for an Ok event that names the path
ReplacementsNamed(ev) == ~ev.err /\ "R" \in ev.paths

\* line 272: the second if is reached unless the replacement load failed
\* (the continue of line 261), and runs for an event that names the path
ExclusionsNamed(ev, replacementLoad) ==
    ~ev.err /\ replacementLoad # "failed" /\ "E" \in ev.paths

\* mutant: the conversion fails in the loop
PathToStr_Fails(utf8) == FALSE

\* lines 255 and 276: path.to_str().context(..)? returns from main on Err
PathToStr(utf8) == utf8

\* the outcome of the latest load attempt, after this one
Outcome(last, res) == IF res.load = "none" THEN last ELSE res.load

DrainStep ==
    /\ pc = "drain"
    /\ LET got == try_recv(queue, watcherAlive)
           ev == IF got = "event" THEN Head(queue) ELSE ErrEvent
           curR == [val |-> replacements, hash |-> previous_replacement_hash,
                    failed |-> replacement_failed]
           curE == [val |-> exclusion_list, hash |-> previous_exclusion_hash,
                    failed |-> exclusion_failed]
           namedR == got = "event" /\ ReplacementsNamed(ev)
           r == IF namedR /\ PathToStr(pathUtf8)
                THEN ReloadReplacements(curR, files["R"]) ELSE NoReload(curR)
           namedE == got = "event" /\ ExclusionsNamed(ev, r.load)
                     /\ ~(namedR /\ ~PathToStr(pathUtf8))
           e == IF namedE /\ PathToStr(pathUtf8)
                THEN ReloadExclusions(curE, files["E"]) ELSE NoReload(curE)
           returned == (namedR \/ namedE) /\ ~PathToStr(pathUtf8)
       IN  /\ queue' = IF got = "event" THEN Tail(queue) ELSE queue
           /\ replacements' = r.val
           /\ previous_replacement_hash' = r.hash
           /\ replacement_failed' = r.failed
           /\ exclusion_list' = e.val
           /\ previous_exclusion_hash' = e.hash
           /\ exclusion_failed' = e.failed
           /\ lastLoad' = [lastLoad EXCEPT !["R"] = Outcome(@, r), !["E"] = Outcome(@, e)]
           /\ drain' = [kind |-> got, paths |-> ev.paths, loadR |-> r.load, loadE |-> e.load,
                        warnR |-> r.warn, warnE |-> e.warn,
                        infoR |-> r.info, infoE |-> e.info]
           /\ IF got = "disconnected"
              THEN \E newOk \in BOOLEAN :
                     /\ watcher' = IF newOk THEN watcher + 1 ELSE watcher
                     /\ watcherAlive' = newOk
              ELSE UNCHANGED <<watcher, watcherAlive>>
           /\ pc' = IF returned THEN "exit" ELSE "sleep"
    /\ UNCHANGED <<entered, ctx, pathUtf8, files, clipboard, made, init, tick, fmtVars>>

\* line 324: thread::sleep(1 s), then the next iteration
Sleep ==
    /\ pc = "sleep"
    /\ pc' = "clip"
    /\ drain' = NoDrain
    /\ tick' = [NoTick EXCEPT !.newHandle = tick.newHandle]
    /\ UNCHANGED <<entered, replacements, exclusion_list, previous_replacement_hash,
                   previous_exclusion_hash, replacement_failed, exclusion_failed, ctx,
                   watcher, envVars, init, lastLoad, fmtVars>>

(***************************************************************************)
(* The environment: the user, the disk and the watcher's thread            *)
(***************************************************************************)
\* The steps of the environment are taken between two iterations of the loop.
\* One that falls inside an iteration commutes with the steps of main around
\* it: the clipboard step reads and writes only the clipboard, the drain step
\* only the channel and the files, the sleep nothing; so every run has the
\* same steps of main, with the same effects, as a run of this form.
Running == entered /\ pc = "clip"

\* the user copies a text, or something that is not text
UserCopy ==
    /\ Running
    /\ \E c \in {Text(t) : t \in UserTexts} \cup {NonText} :
        /\ c = NonText => made < MaxHandles
        /\ c # clipboard
        /\ clipboard' = c
    /\ UNCHANGED <<progVars, pathUtf8, files, made, queue, watcherAlive, ghostVars, fmtVars>>

\* a config file is rewritten: with a valid content, or so that it does not load
EditFile ==
    /\ Running
    /\ \E f \in Paths :
       \E c \in {Bad} \cup {Valid(v) : v \in IF f = "R" THEN RuleConfigs ELSE ExclusionConfigs} :
        /\ c # files[f]
        /\ files' = [files EXCEPT ![f] = c]
    /\ UNCHANGED <<progVars, pathUtf8, clipboard, made, queue, watcherAlive, ghostVars,
                   fmtVars>>

\* the watcher sends a message: an error or an event
WatcherEmit ==
    /\ Running /\ watcherAlive
    /\ Len(queue) < MaxQueue
    /\ \E ev \in Events : queue' = Append(queue, ev)
    /\ UNCHANGED <<progVars, pathUtf8, files, clipboard, made, watcherAlive, ghostVars,
                   fmtVars>>

\* the watcher fails internally and drops its end of the channel
WatcherFail ==
    /\ Running /\ watcherAlive
    /\ watcherAlive' = FALSE
    /\ UNCHANGED <<progVars, pathUtf8, files, clipboard, made, queue, ghostVars, fmtVars>>

Next ==
    \/ Startup
    \/ ClipboardStep
    \/ DrainStep
    \/ Sleep
    \/ UserCopy
    \/ EditFile
    \/ WatcherEmit
    \/ WatcherFail

Spec == Init /\ [][Next]_vars

(***************************************************************************)
(* The loop under bursts of the watcher                                    *)
(***************************************************************************)
\* the watcher sends two messages between two iterations of the loop, as it
\* does when both files change within one second
WatcherBurst ==
    /\ Running /\ watcherAlive
    /\ queue = <<>>
    /\ \E ev1, ev2 \in Events : queue' = <<ev1, ev2>>
    /\ UNCHANGED <<progVars, pathUtf8, files, clipboard, made, watcherAlive, ghostVars,
                   fmtVars>>

NextBurst ==
    \/ Startup
    \/ ClipboardStep
    \/ DrainStep
    \/ Sleep
    \/ EditFile
    \/ WatcherBurst

SpecBurst == Init /\ [][NextBurst]_vars

(***************************************************************************)
(* format_text on its own, on bounded inputs                               *)
(***************************************************************************)
\* "A", the code points on either side of the regex class, its two ends, "，"
FoldAlphabet == {65, 65280, 65281, 65374, 65375, 65292}

\* every sequence over S of length at most n
RECURSIVE SeqsUpTo(_, _)
SeqsUpTo(S, n) ==
    IF n = 0 THEN {<<>>}
    ELSE LET shorter == SeqsUpTo(S, n - 1)
         IN  shorter \cup {Append(t, c) : t \in shorter, c \in S}

\* the input of the tests of lines 498-578: "foo baz １２３４！？"
TestInput ==
    <<102, 111, 111, 32, 98, 97, 122, 32, 65297, 65298, 65299, 65300, 65281, 65311>>

\* their rules: "foo"->"bar", "baz"->"qux"
TestReplacements ==
    << Rule(<<102, 111, 111>>, <<98, 97, 114>>), Rule(<<98, 97, 122>>, <<113, 117, 120>>) >>

\* their exclusion list: "！" "？"
TestExclusions == <<65281, 65311>>

\* the inputs: each character of the class alone, every text over FoldAlphabet,
\* the input of the tests, "AAA"
FmtTexts ==
    {<<c>> : c \in 65281..65374} \cup SeqsUpTo(FoldAlphabet, MaxLen)
        \cup {TestInput, <<65, 65, 65>>}

\* no rule; the defaults; "A"->"！"; "！"->"A" then "A"->"，"; the rules of the
\* tests; "A"->"AA" twice; "AA"->"！"
FmtRuleSeqs ==
    { <<>>, DefaultReplacements, <<Rule(<<65>>, <<65281>>)>>,
      <<Rule(<<65281>>, <<65>>), Rule(<<65>>, <<65292>>)>>,
      TestReplacements,
      <<Rule(<<65>>, <<65, 65>>), Rule(<<65>>, <<65, 65>>)>>,
      <<Rule(<<65, 65>>, <<65281>>)>> }

\* no exclusion; the defaults; "！"; a list with characters outside the class;
\* the list of the tests
FmtExclusions ==
    { <<>>, DefaultExclusions, <<65281>>, <<65, 65375, 65374>>, TestExclusions }

\* the loop is not running under SpecFmt
LoopOff ==
    /\ pc = "off" /\ entered = FALSE
    /\ replacements = <<>> /\ exclusion_list = <<>>
    /\ previous_replacement_hash = 0 /\ previous_exclusion_hash = 0
    /\ replacement_failed = FALSE /\ exclusion_failed = FALSE
    /\ ctx = 0 /\ watcher = 0 /\ made = 0
    /\ pathUtf8 = TRUE
    /\ files = [R |-> Missing, E |-> Missing]
    /\ clipboard = NonText
    /\ queue = <<>> /\ watcherAlive = FALSE
    /\ init = NoInit /\ tick = NoTick /\ drain = NoDrain
    /\ lastLoad = [f \in Paths |-> "none"]

InitFmt ==
    /\ LoopOff
    /\ fmtPc = "call"
    /\ fmtText \in FmtTexts
    /\ fmtRules \in FmtRuleSeqs
    /\ fmtExcl \in FmtExclusions
    /\ fmtMid = <<>>
    /\ fmtOut = [ok |-> FALSE, text |-> <<>>]
    /\ fmtAgain = [ok |-> FALSE, text |-> <<>>]

\* one call of format_text; fmtMid is the working string after the rules
CallFormatText ==
    /\ fmtPc = "call"
    /\ fmtPc' = "done"
    /\ fmtMid' = ApplyReplacements(fmtText, fmtRules)
    /\ fmtOut' = format_text(fmtText, fmtRules, fmtExcl)
    /\ UNCHANGED <<progVars, envVars, ghostVars, fmtText, fmtRules, fmtExcl, fmtAgain>>

\* a second call, on the text the first returned and with the same rules and
\* exclusions: what the loop does with a text it wrote back, at line 216 of
\* the next iteration
CallFormatTextAgain ==
    /\ fmtPc = "done" /\ fmtOut.ok
    /\ fmtPc' = "again"
    /\ fmtAgain' = format_text(fmtOut.text, fmtRules, fmtExcl)
    /\ UNCHANGED <<progVars, envVars, ghostVars, fmtText, fmtRules, fmtExcl, fmtMid, fmtOut>>

NextFmt == CallFormatText \/ CallFormatTextAgain

SpecFmt == InitFmt /\ [][NextFmt]_vars

(***************************************************************************)
(* Properties                                                              *)
(***************************************************************************)
InLoop == pc \in {"clip", "drain", "sleep"}

\* the step taken is the clipboard step, respectively the drain step, of main
ClipStepTaken == pc = "clip" /\ pc' # "clip"
DrainStepTaken == pc = "drain" /\ pc' # "drain"

\* C1: once the loop has been entered main never returns, whatever fails
\* (clipboard read, write, reopen, config loads, the watcher), and a next
\* step of the loop is always possible, up to the next tick.
C1_LoopNeverExits ==
    entered =>
        /\ InLoop
        /\ pc = "clip" => ENABLED ClipboardStep
        /\ pc = "drain" => ENABLED DrainStep
        /\ pc = "sleep" => ENABLED Sleep

\* C1 witness: the loop runs on after a failed reopen, a failed load and a
\* failed watcher
C1_Witness ==
    /\ entered /\ pc = "drain"
    /\ tick.reopen /\ ~tick.reopenOk
    /\ lastLoad["R"] = "failed" /\ lastLoad["E"] = "failed"
    /\ ~watcherAlive

\* C2 as stated: a drain step in which a load fails leaves the rules, the
\* exclusions and both fingerprints as they were.
C2_FailedLoadKeepsAll ==
    [][ (DrainStepTaken /\ (drain'.loadR = "failed" \/ drain'.loadE = "failed"))
        => UNCHANGED <<replacements, exclusion_list, previous_replacement_hash,
                       previous_exclusion_hash>> ]_vars

\* C2 amended: a drain step in which the load of a file fails leaves that
\* file's in-memory value and fingerprint as they were; a failed load of the
\* rules leaves the exclusions and their fingerprint as they were too.
C2_FailedLoadKeepsThatConfig ==
    [][ /\ (DrainStepTaken /\ drain'.loadR = "failed")
           => UNCHANGED <<replacements, previous_replacement_hash,
                          exclusion_list, previous_exclusion_hash>>
        /\ (DrainStepTaken /\ drain'.loadE = "failed")
           => UNCHANGED <<exclusion_list, previous_exclusion_hash>> ]_vars

\* C2 witness: an event was processed whose exclusion load failed while the
\* exclusions in effect are not the empty list
C2_Witness ==
    /\ pc = "sleep" /\ drain.loadE = "failed" /\ exclusion_list # <<>>

\* C3: a failed load of a file logs its warning exactly when it is the first
\* of its episode, that is when the load attempt of that file before it
\* (the one of startup for the first) succeeded; so each episode logs one warning.
C3_OneWarningPerEpisode ==
    [][ /\ (DrainStepTaken /\ drain'.loadR = "failed")
           => (drain'.warnR <=> lastLoad["R"] = "ok")
        /\ (DrainStepTaken /\ drain'.loadE = "failed")
           => (drain'.warnE <=> lastLoad["E"] = "ok") ]_vars

\* C4: the clipboard step attempts the write of line 224 exactly when the
\* read succeeded, format_text succeeded and its result differs from the text
\* read, which is the clipboard's text; without a write the clipboard is left alone.
C4_WriteIffChanged ==
    [][ ClipStepTaken =>
          /\ tick'.wrote <=> (tick'.readOk /\ tick'.fmtOk
                              /\ tick'.formatted # clipboard.val)
          /\ tick'.readOk => tick'.read = clipboard.val
          /\ (tick'.readOk /\ ~tick'.wrote) => clipboard' = clipboard ]_vars

\* C4 witness: a non-empty text was read that normalization leaves as it is,
\* and no write was attempted
C4_Witness ==
    /\ pc = "drain" /\ tick.readOk /\ tick.fmtOk
    /\ tick.read # <<>> /\ tick.formatted = tick.read /\ ~tick.wrote

\* C5: after a tick whose read failed and whose reopen succeeded, the handle
\* held is the new one and main has not returned; the next clipboard step
\* reads through the new handle and, when the read succeeds, writes exactly
\* when normalization changed the text, storing the normalized text.
C5_ResumesAfterReopen ==
    [][ /\ tick.newHandle # 0 => (ctx = tick.newHandle /\ pc # "exit" /\ pc' # "exit")
        /\ (ClipStepTaken /\ tick.newHandle # 0) =>
              /\ pc' = "drain"
              /\ tick'.handle = tick.newHandle
              /\ tick'.readOk =>
                    /\ tick'.wrote <=> (tick'.fmtOk /\ tick'.formatted # clipboard.val)
                    /\ tick'.writeOk => clipboard' = Text(tick'.formatted) ]_vars

\* C5 witness: the tick after a successful reopen read through the new handle
\* and wrote the normalized text back
C5_Witness ==
    /\ pc = "drain" /\ tick.resumed # 0 /\ tick.handle = tick.resumed
    /\ tick.readOk /\ tick.writeOk /\ clipboard = Text(tick.formatted)

\* C6: a drain step that consumes an event naming a file, while the file
\* holds a valid content whose fingerprint differs from the accepted one,
\* makes the in-memory value equal to that content.
C6_EventReloads ==
    [][ /\ (DrainStepTaken /\ queue # <<>> /\ ~Head(queue).err /\ "R" \in Head(queue).paths
            /\ LoadOk(files["R"])
            /\ calculate_hash_replacements(files["R"].val) # previous_replacement_hash)
           => replacements' = files["R"].val
        /\ (DrainStepTaken /\ queue # <<>> /\ ~Head(queue).err /\ "E" \in Head(queue).paths
            /\ LoadOk(files["E"])
            /\ calculate_hash_exclusions(files["E"].val) # previous_exclusion_hash)
           => exclusion_list' = files["E"].val ]_vars

\* C7: a drain step taken when the watcher has dropped its end of the channel
\* and no message is buffered finds the channel disconnected (and goes on to
\* construct a watcher).
C7_DisconnectionDetected ==
    [][ (DrainStepTaken /\ ~watcherAlive /\ queue = <<>>)
        => drain'.kind = "disconnected" ]_vars

\* C8: the loop is entered only when the bootstrap, both loads, the watcher
\* with both registrations and the clipboard open all succeeded; when one of
\* them failed main has returned and the loop has read no clipboard.
C8_LoopOnlyAfterStartup ==
    /\ entered => /\ init.bootstrap = "ok" /\ init.loadR = "ok" /\ init.loadE = "ok"
                  /\ init.watcher = "ok" /\ init.clipboard = "ok"
    /\ (\E k \in DOMAIN init : init[k] = "failed")
       => (pc = "exit" /\ ~entered /\ tick = NoTick /\ ctx = 0)
    /\ pc # "startup" => (entered \/ \E k \in DOMAIN init : init[k] = "failed")

\* C8 witness: main returned because a watch registration failed
C8_Witness ==
    /\ pc = "exit" /\ init.watcher = "failed" /\ init.loadE = "ok"

\* C9: in the width-folding step every character of U+FF01..U+FF5E that is
\* in the exclusion list is kept, and every other one becomes the character
\* with code point c - 0xFEE0, which lies in 0x21..0x7E.
C9_FoldInRange ==
    fmtPc = "done" =>
        /\ fmtOut.ok /\ Len(fmtOut.text) = Len(fmtMid)
        /\ \A i \in 1..Len(fmtMid) :
              LET c == fmtMid[i]
              IN  (65281 <= c /\ c <= 65374) =>
                    IF \E j \in 1..Len(fmtExcl) : fmtExcl[j] = c
                    THEN fmtOut.text[i] = c
                    ELSE /\ fmtOut.text[i] = c - 65248
                         /\ 33 <= fmtOut.text[i] /\ fmtOut.text[i] <= 126

\* C9 witness: "！～" folded with only "！" excluded
C9_Witness ==
    /\ fmtPc = "done" /\ fmtMid = <<65281, 65374>> /\ fmtExcl = <<65281>>
    /\ fmtOut.text = <<65281, 126>>

\* C10: the width-folding step leaves every character outside U+FF01..U+FF5E
\* as it is and where it is, in the exclusion list or not; with no rule that
\* holds between the input and the output of format_text.
C10_OutsideUntouched ==
    fmtPc = "done" =>
        /\ Len(fmtOut.text) = Len(fmtMid)
        /\ \A i \in 1..Len(fmtMid) :
              (fmtMid[i] < 65281 \/ fmtMid[i] > 65374) => fmtOut.text[i] = fmtMid[i]
        /\ fmtRules = <<>> =>
              /\ Len(fmtOut.text) = Len(fmtText)
              /\ \A i \in 1..Len(fmtText) :
                    (fmtText[i] < 65281 \/ fmtText[i] > 65374)
                        => fmtOut.text[i] = fmtText[i]

\* C10 witness: U+FF5F, which is excluded, and U+FF00, which is not, under no rule
C10_Witness ==
    /\ fmtPc = "done" /\ fmtRules = <<>> /\ fmtText = <<65375, 65280>>
    /\ fmtExcl = <<65, 65375, 65374>> /\ fmtOut.text = <<65375, 65280>>

\* where from occurs in s
Occurrences(s, from) ==
    {i \in 1..(Len(s) - Len(from) + 1) : SubSeq(s, i, i + Len(from) - 1) = from}

\* the occurrences a left-to-right scan replaces: they do not overlap, and an
\* occurrence is left out only when it overlaps one taken before it
Replaced(s, from) ==
    CHOOSE M \in SUBSET Occurrences(s, from) :
        /\ \A m, n \in M : m < n => m + Len(from) <= n
        /\ \A q \in Occurrences(s, from) \ M :
              \E m \in M : m < q /\ q < m + Len(from)

\* out is s with each of these occurrences of from turned into to, and every
\* other character kept in its place
OneRuleApplied(s, from, to, out) ==
    LET M == Replaced(s, from)
        grow == Len(to) - Len(from)
        shift(i) == Cardinality({m \in M : m < i}) * grow
    IN  /\ Len(out) = Len(s) + Cardinality(M) * grow
        /\ \A m \in M : SubSeq(out, m + shift(m), m + shift(m) + Len(to) - 1) = to
        /\ \A i \in 1..Len(s) :
              (\A m \in M : i < m \/ m + Len(from) <= i) => out[i + shift(i)] = s[i]

\* C11: format_text applies the rules in sequence order, rule i replacing
\* every non-overlapping occurrence of its original in the working string that
\* rules 1..i-1 left (so a duplicated rule is applied again), and folds the
\* widths of the result only afterwards; the rules "foo"->"bar", "baz"->"qux"
\* turn "foo baz １２３４！？" into "bar qux 1234！？" when "！" and "？" are excluded
\* and into "bar qux 1234!?" when nothing is.
C11_RulesInOrderThenFold ==
    fmtPc = "done" =>
        LET working == [i \in 0..Len(fmtRules) |->
                           ApplyReplacements(fmtText, SubSeq(fmtRules, 1, i))]
        IN  /\ working[0] = fmtText
            /\ \A i \in 1..Len(fmtRules) :
                  OneRuleApplied(working[i - 1], fmtRules[i].original,
                                 fmtRules[i].replacement, working[i])
            /\ fmtMid = working[Len(fmtRules)]
            /\ fmtOut.ok /\ Len(fmtOut.text) = Len(fmtMid)
            /\ \A i \in 1..Len(fmtMid) :
                  fmtOut.text[i] =
                      IF /\ 65281 <= fmtMid[i] /\ fmtMid[i] <= 65374
                         /\ \A j \in 1..Len(fmtExcl) : fmtExcl[j] # fmtMid[i]
                      THEN fmtMid[i] - 65248 ELSE fmtMid[i]
            /\ (fmtText = TestInput /\ fmtRules = TestReplacements) =>
                  /\ fmtExcl = TestExclusions =>
                        fmtOut.text = <<98, 97, 114, 32, 113, 117, 120, 32,
                                        49, 50, 51, 52, 65281, 65311>>
                  /\ fmtExcl = <<>> =>
                        fmtOut.text = <<98, 97, 114, 32, 113, 117, 120, 32,
                                        49, 50, 51, 52, 33, 63>>
            /\ (fmtText = <<65, 65, 65>> /\ fmtExcl = <<>>) =>
                  /\ fmtRules = <<Rule(<<65, 65>>, <<65281>>)>> => fmtOut.text = <<33, 65>>
                  /\ fmtRules = <<Rule(<<65>>, <<65, 65>>), Rule(<<65>>, <<65, 65>>)>>
                        => Len(fmtOut.text) = 12

\* C11 witness: the test of lines 498-521, and a second rule that rewrote
\* what the first produced
C11_Witness ==
    /\ fmtPc = "done" /\ fmtText = TestInput /\ fmtRules = TestReplacements
    /\ fmtExcl = TestExclusions
    /\ fmtMid = <<98, 97, 114, 32, 113, 117, 120, 32,
                  65297, 65298, 65299, 65300, 65281, 65311>>
    /\ fmtOut.text = <<98, 97, 114, 32, 113, 117, 120, 32,
                       49, 50, 51, 52, 65281, 65311>>

\* C12: with no rule, format_text applied to its own result, under the same
\* exclusion list, returns that result: width folding is idempotent; so the
\* comparison of line 218 finds nothing to write for a text the loop has
\* already normalized.
C12_FoldIdempotent ==
    (fmtPc = "again" /\ fmtRules = <<>>) =>
        /\ fmtAgain.ok
        /\ fmtAgain.text = fmtOut.text
        /\ ~ShouldWrite(fmtOut.text, fmtAgain.text)

\* C12 witness: "！～" was folded to "！~" with "！" excluded, and folded again
C12_Witness ==
    /\ fmtPc = "again" /\ fmtRules = <<>> /\ fmtText = <<65281, 65374>>
    /\ fmtExcl = <<65281>> /\ fmtOut.text = <<65281, 126>> /\ fmtAgain.text = <<65281, 126>>

\* C13: the sticky flag of a file changes only in a drain step that attempts
\* a load of that file; after a failed load it is set, and after a successful
\* load it is clear, whether or not the fingerprint changed.
C13_FlagFollowsLoads ==
    [][ /\ DrainStepTaken =>
              /\ drain'.loadR = "failed" => replacement_failed'
              /\ drain'.loadR = "ok" => ~replacement_failed'
              /\ drain'.loadR = "none" => UNCHANGED replacement_failed
              /\ drain'.loadE = "failed" => exclusion_failed'
              /\ drain'.loadE = "ok" => ~exclusion_failed'
              /\ drain'.loadE = "none" => UNCHANGED exclusion_failed
        /\ ~DrainStepTaken => UNCHANGED <<replacement_failed, exclusion_failed>> ]_vars

\* C14: a drain step in which the load of a file succeeds replaces the
\* in-memory value and the accepted fingerprint of that file by the loaded
\* ones, and logs the reload, exactly when the fingerprint of the loaded value
\* differs from the accepted one; otherwise value and fingerprint stay and
\* nothing is logged.
C14_AppliedIffFingerprintDiffers ==
    [][ /\ (DrainStepTaken /\ drain'.loadR = "ok") =>
              LET h == calculate_hash_replacements(files["R"].val)
              IN  IF h # previous_replacement_hash
                  THEN /\ replacements' = files["R"].val
                       /\ previous_replacement_hash' = h
                       /\ drain'.infoR
                  ELSE /\ UNCHANGED <<replacements, previous_replacement_hash>>
                       /\ ~drain'.infoR
        /\ (DrainStepTaken /\ drain'.loadE = "ok") =>
              LET h == calculate_hash_exclusions(files["E"].val)
              IN  IF h # previous_exclusion_hash
                  THEN /\ exclusion_list' = files["E"].val
                       /\ previous_exclusion_hash' = h
                       /\ drain'.infoE
                  ELSE /\ UNCHANGED <<exclusion_list, previous_exclusion_hash>>
                       /\ ~drain'.infoE ]_vars

\* C14 witness: one event named both files; the rules were reloaded, the
\* exclusions loaded with the accepted fingerprint and were left alone
C14_Witness ==
    /\ pc = "sleep" /\ drain.paths = {"R", "E"}
    /\ drain.loadR = "ok" /\ drain.infoR /\ replacements = files["R"].val
    /\ drain.loadE = "ok" /\ ~drain.infoE

\* C15: a drain step consumes every message pending when it starts, so the
\* channel is empty when it ends, and goes on to the sleep; on an empty
\* channel it changes nothing of the configuration and goes on to the sleep.
C15_QueueDrainedEachTick ==
    [][ DrainStepTaken =>
          /\ queue' = <<>>
          /\ pc' = "sleep"
          /\ queue = <<>> =>
                UNCHANGED <<replacements, exclusion_list, previous_replacement_hash,
                            previous_exclusion_hash, replacement_failed,
                            exclusion_failed>> ]_vars

\* C16: in the loop the clipboard step is always followed by the drain step,
\* the drain step by the sleep of line 324 and the sleep by the next
\* clipboard step, whatever the clipboard step did (write or not, failed
\* normalization, failed write, failed read with or without a new context)
\* and whatever the drain step found (nothing, a message, a failed load, an
\* accepted or an unchanged fingerprint, a disconnection); a clipboard read
\* is preceded by startup or by that sleep.
C16_DrainThenSleepEveryTick ==
    [][ /\ ClipStepTaken => pc' = "drain"
        /\ DrainStepTaken => pc' = "sleep"
        /\ (pc = "sleep" /\ pc' # "sleep") => pc' = "clip"
        /\ (pc # "clip" /\ pc' = "clip") => pc \in {"startup", "sleep"}
        /\ (entered /\ pc' # pc) =>
              \/ ClipStepTaken /\ tick' # NoTick
              \/ DrainStepTaken /\ drain'.kind \in {"event", "empty", "disconnected"}
              \/ pc = "sleep" ]_vars

\* C16 witness: the sleep is reached in a tick whose read failed, whose
\* reopen gave a new context, and whose event ended in a failed load
C16_Witness ==
    /\ pc = "sleep" /\ tick.newHandle # 0
    /\ drain.kind = "event" /\ drain.loadR = "failed"

\* C17: a clipboard step whose read fails calls neither format_text nor the
\* write of line 224, attempts one reopen, and takes the three-second sleep
\* exactly when the reopen fails; after a failed reopen the context held is
\* the one held before, after a successful one it is the one new context.
\* The clipboard changes in such a step only through the probe of the reopen.
C17_ReadFailureRecovers ==
    [][ (ClipStepTaken /\ ~tick'.readOk) =>
          /\ ~tick'.fmtOk /\ tick'.formatted = <<>>
          /\ ~tick'.wrote /\ ~tick'.writeOk
          /\ tick'.reopen
          /\ made' \in {made, made + 1}
          /\ tick'.backoff <=> ~tick'.reopenOk
          /\ ~tick'.reopenOk => (ctx' = ctx /\ made' = made)
          /\ tick'.reopenOk => (ctx' = made' /\ made' = made + 1)
          /\ clipboard' # clipboard => (tick'.probeWrote /\ clipboard' = Text(<<>>))
          /\ pc' = "drain" ]_vars

\* C17 witness: the read and the reopen failed, the long sleep was taken and
\* the old context is still held
C17_Witness ==
    /\ pc = "drain" /\ ~tick.readOk /\ tick.reopen /\ ~tick.reopenOk /\ tick.backoff
    /\ ctx = tick.handle /\ ctx # 0

\* C18: a clipboard step attempts the write of line 224 at most once; when
\* that write fails it is not attempted again in the step, no reopen follows,
\* and the context, the rules, the exclusions, both fingerprints and both
\* sticky flags are what they were before the step.
C18_WriteFailureChangesNothing ==
    [][ /\ ClipStepTaken => tick'.writes \in {0, 1}
        /\ (ClipStepTaken /\ tick'.wrote /\ ~tick'.writeOk) =>
              /\ tick'.writes = 1
              /\ ~tick'.reopen /\ ~tick'.backoff /\ tick'.newHandle = 0
              /\ UNCHANGED <<ctx, made, replacements, exclusion_list,
                             previous_replacement_hash, previous_exclusion_hash,
                             replacement_failed, exclusion_failed>>
              /\ pc' = "drain" ]_vars

\* C18 witness: the write of a normalized text failed and the clipboard
\* still holds the text read
C18_Witness ==
    /\ pc = "drain" /\ tick.readOk /\ tick.wrote /\ ~tick.writeOk
    /\ tick.formatted # tick.read /\ clipboard = Text(tick.read) /\ ctx = tick.handle

\* C19: the clipboard step normalizes the text it read with the rules and
\* the exclusions held when the tick started and leaves them as they are;
\* they change only in the drain step, which comes after it and touches
\* neither the clipboard nor the result of the clipboard step. So a reloaded
\* configuration is used from the next clipboard step on, and that step
\* normalizes the text it finds, already normalized or not, with it.
C19_SnapshotOfTickStart ==
    [][ /\ (ClipStepTaken /\ tick'.readOk) =>
              /\ tick'.fmtOk
              /\ tick'.formatted =
                    WidthFold(ApplyReplacements(clipboard.val, replacements), exclusion_list)
        /\ ClipStepTaken =>
              UNCHANGED <<replacements, exclusion_list, previous_replacement_hash,
                          previous_exclusion_hash, queue>>
        /\ (entered /\ ~DrainStepTaken) =>
              UNCHANGED <<replacements, exclusion_list, previous_replacement_hash,
                          previous_exclusion_hash>>
        /\ DrainStepTaken => UNCHANGED <<clipboard, tick>> ]_vars

\* C19 witness: "！" was read and left alone while "！" was excluded; the drain
\* step of the same tick then loaded an empty exclusion list, under which the
\* next tick will fold it
C19_Witness ==
    /\ pc = "sleep" /\ tick.readOk /\ tick.read = <<65281>> /\ ~tick.wrote
    /\ drain.infoE /\ exclusion_list = <<>> /\ replacements = <<>>
    /\ clipboard = Text(<<65281>>)
    /\ ShouldWrite(clipboard.val, format_text(clipboard.val, replacements, exclusion_list).text)

\* C20: create_clipboard_context constructs the provider, reads when that
\* succeeded and writes the empty string only when the read failed; it
\* returns the context exactly when the provider was constructed and the read
\* or the write succeeded, and a CreateContext error when the construction
\* failed or both probes failed. The clipboard is changed by it only through
\* a successful write probe.
C20_OpenIffProbeSucceeds ==
    [][ (ClipStepTaken /\ tick'.reopen) =>
          LET o == tick'.open
          IN  /\ o.new \in {"ok", "failed"}
              /\ o.get # "skipped" <=> o.new = "ok"
              /\ o.set # "skipped" <=> (o.new = "ok" /\ o.get = "failed")
              /\ tick'.reopenOk <=> (o.new = "ok" /\ (o.get = "ok" \/ o.set = "ok"))
              /\ ~tick'.reopenOk <=>
                    (o.new = "failed" \/ (o.get = "failed" /\ o.set = "failed"))
              /\ o.err = IF tick'.reopenOk THEN "none" ELSE "CreateContext"
              /\ tick'.probeWrote <=> o.set = "ok"
              /\ clipboard' = IF o.set = "ok" THEN Text(<<>>) ELSE clipboard ]_vars

\* C20 witness: the provider was constructed, the read probe failed, the
\* write probe succeeded, and the context was returned
C20_Witness ==
    /\ pc = "drain" /\ tick.reopen /\ tick.reopenOk
    /\ tick.open = Calls("ok", "failed", "ok", "none")
    /\ ctx = tick.newHandle /\ clipboard = Text(<<>>)

\* C21: a step of main that changes the clipboard is a clipboard step whose
\* read succeeded, and the value it stores is format_text of the text read in
\* that step under the rules and exclusions held; main stores nothing else,
\* at startup, in the loop or while it recovers the clipboard.
C21_OnlyNormalizedTextStored ==
    [][ (pc' # pc /\ clipboard' # clipboard) =>
          /\ ClipStepTaken
          /\ tick'.readOk /\ tick'.read = clipboard.val
          /\ clipboard' =
                Text(WidthFold(ApplyReplacements(tick'.read, replacements), exclusion_list)) ]_vars

\* C22: from the entry into the loop on, at every position of the loop, each
\* accepted fingerprint is the hash of the configuration held in memory:
\* previous_replacement_hash of replacements, previous_exclusion_hash of
\* exclusion_list, whatever loads succeeded or failed before.
C22_FingerprintMatchesConfig ==
    entered =>
        /\ previous_replacement_hash = calculate_hash_replacements(replacements)
        /\ previous_exclusion_hash = calculate_hash_exclusions(exclusion_list)

\* C22 witness: the rules have just been reloaded from the file, in a drain
\* step, after a load of the exclusions had failed
C22_Witness ==
    /\ entered /\ pc = "sleep" /\ drain.infoR /\ replacements = files["R"].val
    /\ previous_replacement_hash = calculate_hash_replacements(files["R"].val)
    /\ lastLoad["E"] = "failed" /\ exclusion_list # <<>>

\* C23: a drain step that consumes an event naming both files attempts the
\* load of each of them, whatever the outcome of the other load, and accepts
\* each loaded value whose fingerprint differs from the accepted one.
C23_FilesHandledIndependently ==
    [][ (DrainStepTaken /\ queue # <<>> /\ ~Head(queue).err
         /\ Head(queue).paths = {"R", "E"}) =>
          /\ drain'.loadR = Status(LoadOk(files["R"]))
          /\ drain'.loadE = Status(LoadOk(files["E"]))
          /\ (LoadOk(files["R"])
               /\ calculate_hash_replacements(files["R"].val) # previous_replacement_hash)
                => (replacements' = files["R"].val /\ drain'.infoR)
          /\ (LoadOk(files["E"])
               /\ calculate_hash_exclusions(files["E"].val) # previous_exclusion_hash)
                => (exclusion_list' = files["E"].val /\ drain'.infoE) ]_vars

====
